---- MODULE Spec2Model ----
(***************************************************************************)
(* Tool registry and dispatch engine of the ClickUp MCP server             *)
(* (src/src/server.ts) together with the background cache prewarm          *)
(* (src/src/services/clickup/custom.ts).                                   *)
(*                                                                         *)
(* Text is modelled as a sequence of segments: a template literal such as  *)
(* `Invalid params for tool ${name}: ${err.message}` is the sequence       *)
(* <<"Invalid params for tool ", name, ": ">> \o err.message.              *)
(***************************************************************************)
EXTENDS Integers, Sequences, FiniteSets, TLC

VARIABLES
    enabledTools,        \* config.enabledTools (array of tool names)
    disabledTools,       \* config.disabledTools (array of tool names)
    documentSupport,     \* config.documentSupport ("true" / "false")
    isServerConfigured,  \* module-level flag of server.ts
    registered,          \* per protocol method: number of setRequestHandler calls
    configureCalls,      \* number of configureServer calls made so far
    configureReturn,     \* how the last configureServer call ended
    prewarmPromise,      \* module-level promise of prewarmClickUpCaches
    wsPrewarm,           \* workspaceService.prewarmCaches() of the running prewarm
    taskPrewarm,         \* taskService.prewarmCaches() of the running prewarm
    prewarmStarts,       \* number of times the prewarm body was started
    prewarmWarnings,     \* number of "Cache prewarm failed" warnings logged
    req,                 \* the invocation requests, by request slot
    lastTools,           \* the last answer to a discovery request
    lastStub,            \* the last answer to a resources/list, prompts/list or prompts/get request
    descriptor,          \* a tool descriptor handed to the metadata enhancer
    enhanced,            \* the results of enhancing it, pass after pass
    prewarmCallers,      \* per direct caller of prewarmClickUpCaches: the promise it was handed
    api                  \* a CustomRequestService.callApi call: its options and how it went

cfgVars == <<enabledTools, disabledTools, documentSupport>>
srvVars == <<isServerConfigured, registered, configureCalls, configureReturn>>
pwVars == <<prewarmPromise, wsPrewarm, taskPrewarm, prewarmStarts, prewarmWarnings>>
enhVars == <<descriptor, enhanced>>
svcVars == <<prewarmCallers, api>>
vars == <<enabledTools, disabledTools, documentSupport, isServerConfigured,
          registered, configureCalls, configureReturn, prewarmPromise, wsPrewarm,
          taskPrewarm, prewarmStarts, prewarmWarnings, req, lastTools, lastStub,
          descriptor, enhanced, prewarmCallers, api>>

(***************************************************************************)
(* Bounds and input domains                                                *)
(***************************************************************************)
\* longest enabledTools / disabledTools list the configuration is drawn from
MaxListLen == 2
\* number of configureServer calls made in one process
MaxConfigureCalls == 2
\* number of times the enhancer is applied to a descriptor, each pass on the
\* result of the one before
MaxPasses == 2

\* names the configuration lists are drawn from
CfgNames == {"get_task", "create_document"}
\* names the client invokes: a task tool, a tool whose handler takes no
\* arguments, the API passthrough, a document tool and a name with no handler
ReqNames ==
    {"get_task", "get_workspace_hierarchy", "call_clickup_api", "create_document",
     "not_a_real_tool"}
\* the `arguments` objects of invocation requests
Params == {"p1", "p2"}
\* request slots: the invocations that can be in flight together
Requests == {"r1"}
\* request slots of the specification with overlapping invocations
ConcurrentRequests == {"r1", "r2"}
\* names the overlapping invocations are drawn from: a bound tool and a name
\* with no handler
ConcurrentNames == {"get_task", "not_a_real_tool"}

\* what handlers raise: a name-like discriminator and a message
HandlerErrors ==
    { [name |-> "ValidationError", message |-> <<"bad input">>],
      [name |-> "Error", message |-> <<"network down">>],
      [name |-> "UnknownToolError", message |-> <<"no such tool">>] }
NoError == [name |-> "", message |-> <<>>]
\* no descriptor handed to the metadata enhancer
NoTool == << >>
\* the code that calls prewarmClickUpCaches directly
Callers == {"c1", "c2", "c3"}
\* a caller that has not called yet; afterwards: the body run whose promise it
\* was handed, and the state of prewarmPromise when it called
NotHanded == [run |-> 0, at |-> "notCalled"]
\* no callApi call made
NoApiCall == << >>

Range(s) == {s[i] : i \in 1..Len(s)}

\* the duplicate-free lists over S of length at most n
RECURSIVE ListsUpTo(_, _)
ListsUpTo(S, n) ==
    IF n = 0 THEN {<<>>}
    ELSE LET shorter == ListsUpTo(S, n - 1)
         IN shorter \cup {Append(l, x) : l \in {k \in shorter : Len(k) = n - 1},
                                         x \in S}

ConfigLists == {l \in ListsUpTo(CfgNames, MaxListLen) : Cardinality(Range(l)) = Len(l)}

\* s contains sub as a contiguous run of segments
Contains(s, sub) ==
    \E i \in 1..(Len(s) - Len(sub) + 1) : SubSeq(s, i, i + Len(sub) - 1) = sub

(***************************************************************************)
(* Configuration snapshot and enablement filter                            *)
(***************************************************************************)
includes(list, x) == \E i \in 1..Len(list) : list[i] = x

\* a filter on which a non-empty allow-list does not suppress the deny-list
isToolEnabled_denyAlways(toolName) ==
    IF Len(enabledTools) > 0
    THEN includes(enabledTools, toolName) /\ ~includes(disabledTools, toolName)
    ELSE IF Len(disabledTools) > 0
    THEN ~includes(disabledTools, toolName)
    ELSE TRUE

isToolEnabled(toolName) ==
    IF Len(enabledTools) > 0
    THEN includes(enabledTools, toolName)
    ELSE IF Len(disabledTools) > 0
    THEN ~includes(disabledTools, toolName)
    ELSE TRUE

(***************************************************************************)
(* Metadata enhancer.  The text it reads and builds character by character *)
(* (names, titles, descriptions, property keys) is a sequence of           *)
(* one-character strings.  An optional field is << >> when it is absent    *)
(* and <<v>> when it holds v.                                              *)
(***************************************************************************)
None == << >>
Some(v) == <<v>>

StartsWith(s, prefix) ==
    Len(s) >= Len(prefix) /\ SubSeq(s, 1, Len(prefix)) = prefix

toUpperCase(c) ==
    CASE c = "a" -> "A" []
         c = "b" -> "B" []
         c = "c" -> "C" []
         c = "d" -> "D" []
         c = "e" -> "E" []
         c = "f" -> "F" []
         c = "g" -> "G" []
         c = "h" -> "H" []
         c = "i" -> "I" []
         c = "j" -> "J" []
         c = "k" -> "K" []
         c = "l" -> "L" []
         c = "m" -> "M" []
         c = "n" -> "N" []
         c = "o" -> "O" []
         c = "p" -> "P" []
         c = "q" -> "Q" []
         c = "r" -> "R" []
         c = "s" -> "S" []
         c = "t" -> "T" []
         c = "u" -> "U" []
         c = "v" -> "V" []
         c = "w" -> "W" []
         c = "x" -> "X" []
         c = "y" -> "Y" []
         c = "z" -> "Z" []
         OTHER -> c

\* name.split(/[_-]/).filter(Boolean): the non-empty runs between separators
RECURSIVE split(_)
split(chars) ==
    IF chars = << >> THEN << >>
    ELSE IF Head(chars) \in {"_", "-"} THEN split(Tail(chars))
    ELSE LET n == CHOOSE i \in 1..Len(chars) :
                     /\ \A j \in 1..i : chars[j] \notin {"_", "-"}
                     /\ (i = Len(chars) \/ chars[i + 1] \in {"_", "-"})
         IN <<SubSeq(chars, 1, n)>> \o split(SubSeq(chars, n + 1, Len(chars)))

\* segments.join(' ')
RECURSIVE join(_)
join(segments) ==
    IF segments = << >> THEN << >>
    ELSE IF Len(segments) = 1 THEN segments[1]
    ELSE segments[1] \o <<" ">> \o join(Tail(segments))

formatTitleFromName(name) ==
    LET segments == split(name)
    IN join([i \in 1..Len(segments) |->
                <<toUpperCase(segments[i][1])>> \o Tail(segments[i])])

\* the alternatives of the read-only pattern
ReadOnlyPatterns ==
    { <<"g", "e", "t", "_">>,
      <<"l", "i", "s", "t", "_">>,
      <<"f", "i", "n", "d", "_">>,
      <<"r", "e", "s", "o", "l", "v", "e", "_">>,
      <<"c", "a", "l", "l", "_", "c", "l", "i", "c", "k", "u", "p", "_", "a", "p", "i">>,
      <<"g", "e", "t", "_", "w", "o", "r", "k", "s", "p", "a", "c", "e", "_", "h", "i", "e", "r", "a", "r", "c", "h", "y">> }

\* a pattern without the ^ anchor: an alternative found anywhere in the name
isReadOnly_unanchored(name) ==
    \E p \in ReadOnlyPatterns : Contains(name, p)

\* /^(get_|list_|find_|resolve_|call_clickup_api|get_workspace_hierarchy)/.test(name)
isReadOnly(name) ==
    \E p \in ReadOnlyPatterns : StartsWith(name, p)

\* a replace without the g flag: only the first underscore becomes a space
replaceUnderscores_firstOnly(key) ==
    [i \in 1..Len(key) |->
        IF key[i] = "_" /\ (\A j \in 1..(i - 1) : key[j] # "_") THEN " " ELSE key[i]]

\* key.replace(/_/g, ' ')
replaceUnderscores(key) ==
    [i \in 1..Len(key) |-> IF key[i] = "_" THEN " " ELSE key[i]]

\* one entry of the reduce over Object.entries(properties)
enhanceProperty(key, value) ==
    IF value.isObject /\ value.description = None
    THEN [value EXCEPT !.description =
              Some(<<"V", "a", "l", "u", "e", " ", "f", "o", "r", " ">> \o replaceUnderscores(key))]
    ELSE value

enhanceSchemaWithDescriptions(schema, title) ==
    IF schema = None \/ ~schema[1].isObject
    THEN schema
    ELSE LET object == schema[1]
             properties ==
                 IF object.properties = None THEN << >> ELSE object.properties[1]
             enhancedProperties ==
                 [key \in DOMAIN properties |-> enhanceProperty(key, properties[key])]
         IN Some([isObject |-> TRUE,
                  description |->
                      IF object.description # None
                      THEN object.description
                      ELSE Some(title \o <<" ", "p", "a", "r", "a", "m", "e", "t", "e", "r", "s">>),
                  properties |->
                      Some(IF DOMAIN properties # {}
                           THEN enhancedProperties
                           ELSE properties)])

AnnotationKeys ==
    {"readOnlyHint", "destructiveHint", "idempotentHint", "openWorldHint", "title"}

\* tool.annotations?.title ?? formatTitleFromName(tool.name)
toolTitle(tool) ==
    IF tool.annotations # None /\ "title" \in DOMAIN tool.annotations[1]
    THEN tool.annotations[1]["title"]
    ELSE formatTitleFromName(tool.name)

\* the hints computed from the name alone
inferredAnnotations(tool) ==
    [readOnlyHint |-> isReadOnly(tool.name),
     destructiveHint |-> ~isReadOnly(tool.name),
     idempotentHint |-> isReadOnly(tool.name),
     openWorldHint |-> tool.name = <<"c", "a", "l", "l", "_", "c", "l", "i", "c", "k", "u", "p", "_", "a", "p", "i">>]

\* an enhancer that spreads the computed hints over the descriptor's own
enhanceToolMetadata_inferredWins(tool) ==
    LET inferred == inferredAnnotations(tool)
        supplied == IF tool.annotations = None THEN {} ELSE DOMAIN tool.annotations[1]
    IN [tool EXCEPT
          !.description =
              IF tool.description # None
              THEN tool.description
              ELSE Some(toolTitle(tool) \o <<" ", "t", "o", "o", "l">>),
          !.annotations =
              Some([k \in supplied \cup AnnotationKeys |->
                      IF k = "title" THEN formatTitleFromName(tool.name)
                      ELSE IF k \in DOMAIN inferred THEN inferred[k]
                      ELSE tool.annotations[1][k]]),
          !.inputSchema = enhanceSchemaWithDescriptions(tool.inputSchema, toolTitle(tool))]

\* an enhancer that appends " tool" to the description it finds
enhanceToolMetadata_suffixesDescription(tool) ==
    LET inferred == inferredAnnotations(tool)
        supplied == IF tool.annotations = None THEN {} ELSE DOMAIN tool.annotations[1]
    IN [tool EXCEPT
          !.description =
              Some((IF tool.description # None
                    THEN tool.description[1] ELSE toolTitle(tool)) \o <<" ", "t", "o", "o", "l">>),
          !.annotations =
              Some([k \in supplied \cup AnnotationKeys |->
                      IF k = "title" THEN toolTitle(tool)
                      ELSE IF k \in supplied THEN tool.annotations[1][k]
                      ELSE inferred[k]]),
          !.inputSchema = enhanceSchemaWithDescriptions(tool.inputSchema, toolTitle(tool))]

\* { ...tool, description, annotations, inputSchema }, the annotations being
\* { the computed hints, ...tool.annotations, title }
enhanceToolMetadata(tool) ==
    LET inferred == inferredAnnotations(tool)
        supplied == IF tool.annotations = None THEN {} ELSE DOMAIN tool.annotations[1]
    IN [tool EXCEPT
          !.description =
              IF tool.description # None
              THEN tool.description
              ELSE Some(toolTitle(tool) \o <<" ", "t", "o", "o", "l">>),
          !.annotations =
              Some([k \in supplied \cup AnnotationKeys |->
                      IF k = "title" THEN toolTitle(tool)
                      ELSE IF k \in supplied THEN tool.annotations[1][k]
                      ELSE inferred[k]]),
          !.inputSchema = enhanceSchemaWithDescriptions(tool.inputSchema, toolTitle(tool))]

\* the descriptors handed to the enhancer
ToolNames ==
    { <<"g", "e", "t", "_", "t", "a", "s", "k">>,
      <<"l", "i", "s", "t", "_", "d", "o", "c", "u", "m", "e", "n", "t", "s">>,
      <<"f", "i", "n", "d", "_", "m", "e", "m", "b", "e", "r", "_", "b", "y", "_", "n", "a", "m", "e">>,
      <<"r", "e", "s", "o", "l", "v", "e", "_", "a", "s", "s", "i", "g", "n", "e", "e", "s">>,
      <<"c", "a", "l", "l", "_", "c", "l", "i", "c", "k", "u", "p", "_", "a", "p", "i">>,
      <<"g", "e", "t", "_", "w", "o", "r", "k", "s", "p", "a", "c", "e", "_", "h", "i", "e", "r", "a", "r", "c", "h", "y">>,
      <<"c", "r", "e", "a", "t", "e", "_", "t", "a", "s", "k">>,
      <<"d", "e", "l", "e", "t", "e", "-", "t", "a", "s", "k">>,
      <<"c", "a", "l", "l", "_", "c", "l", "i", "c", "k", "u", "p", "_", "a", "p", "i", "_", "v", "2">>,
      <<"g", "e", "t", "t", "e", "r">>,
      <<"f", "o", "r", "g", "e", "t", "_", "t", "a", "s", "k">> }
ToolDescriptions == {None, Some(<<"C", "u", "s", "t", "o", "m">>)}
HintKeys == AnnotationKeys \ {"title"}
HintObjects == UNION {[S -> BOOLEAN] : S \in SUBSET HintKeys}
ToolAnnotations ==
    {None}
        \cup {Some(h) : h \in HintObjects}
        \cup {Some(h @@ ("title" :> t)) : h \in HintObjects,
                                          t \in {<< >>, <<"M", "y", " ", "T", "o", "o", "l">>}}
PlainProperty == [isObject |-> TRUE, description |-> None, type |-> "string"]
DescribedProperty ==
    [isObject |-> TRUE, description |-> Some(<<"N", "a", "m", "e">>), type |-> "string"]
ScalarProperty == [isObject |-> FALSE, description |-> None, type |-> "true"]
ToolSchemas ==
    { None,
      Some([isObject |-> FALSE, description |-> None, properties |-> None]),
      Some([isObject |-> TRUE, description |-> None, properties |-> None]),
      Some([isObject |-> TRUE, description |-> Some(<<"A", "r", "g", "s">>),
            properties |-> Some((<<"t", "a", "s", "k", "_", "i", "d">> :> PlainProperty)
                                 @@ (<<"n", "a", "m", "e">> :> DescribedProperty)
                                 @@ (<<"c", "u", "s", "t", "o", "m", "_", "i", "t", "e", "m", "_", "i", "d">> :> PlainProperty)
                                 @@ (<<"f", "l", "a", "g">> :> ScalarProperty))]) }
ToolDescriptors ==
    [name : ToolNames, description : ToolDescriptions,
     annotations : ToolAnnotations, inputSchema : ToolSchemas]

(***************************************************************************)
(* Tool catalog (discovery path)                                           *)
(***************************************************************************)
\* a document sub-list that does not look at the feature flag
documentModule_always ==
    << "create_document", "get_document", "list_documents",
       "list_document_pages", "get_document_pages",
       "create_document_page", "update_document_page" >>

\* the document sub-list: spread into the catalog only when the flag is "true"
documentModule ==
    IF documentSupport = "true"
    THEN << "create_document", "get_document", "list_documents",
            "list_document_pages", "get_document_pages",
            "create_document_page", "update_document_page" >>
    ELSE << >>

\* the descriptors of the discovery handler, by name, in declaration order
\* (each descriptor under the name its case of the dispatcher's switch has)
tools ==
    << "get_workspace_hierarchy", "create_task", "get_task", "update_task",
       "move_task", "duplicate_task", "delete_task", "get_task_comments",
       "create_task_comment", "attach_task_file", "create_bulk_tasks",
       "update_bulk_tasks", "move_bulk_tasks", "delete_bulk_tasks",
       "get_workspace_tasks", "get_task_time_entries", "start_time_tracking",
       "stop_time_tracking", "add_time_entry", "delete_time_entry",
       "get_current_time_entry", "add_task_dependency",
       "remove_task_dependency", "get_task_dependencies",
       "add_bulk_dependencies", "create_list", "create_list_in_folder",
       "get_list", "update_list", "delete_list", "create_folder",
       "get_folder", "update_folder", "delete_folder", "get_space_tags",
       "add_tag_to_task", "remove_tag_from_task", "get_workspace_members",
       "find_member_by_name", "resolve_assignees", "call_clickup_api" >>
    \o documentModule

\* a discovery handler that skips the enablement filter
ListToolsResult_unfiltered == tools

\* tools.filter(tool => isToolEnabled(tool.name)): the names of the answer
\* (the metadata enhancer applied to each kept descriptor keeps its name)
ListToolsResult == SelectSeq(tools, isToolEnabled)

(***************************************************************************)
(* Handler bindings: the cases of the dispatcher's switch.  Each case is   *)
(* <<tool name, handler, whether the handler is passed params>>.           *)
(***************************************************************************)
SwitchCases ==
    { <<"get_workspace_hierarchy", "handleGetWorkspaceHierarchy", FALSE>>,
      <<"create_task", "handleCreateTask", TRUE>>,
      <<"update_task", "handleUpdateTask", TRUE>>,
      <<"move_task", "handleMoveTask", TRUE>>,
      <<"duplicate_task", "handleDuplicateTask", TRUE>>,
      <<"get_task", "handleGetTask", TRUE>>,
      <<"delete_task", "handleDeleteTask", TRUE>>,
      <<"get_task_comments", "handleGetTaskComments", TRUE>>,
      <<"create_task_comment", "handleCreateTaskComment", TRUE>>,
      <<"attach_task_file", "handleAttachTaskFile", TRUE>>,
      <<"create_bulk_tasks", "handleCreateBulkTasks", TRUE>>,
      <<"update_bulk_tasks", "handleUpdateBulkTasks", TRUE>>,
      <<"move_bulk_tasks", "handleMoveBulkTasks", TRUE>>,
      <<"delete_bulk_tasks", "handleDeleteBulkTasks", TRUE>>,
      <<"get_workspace_tasks", "handleGetWorkspaceTasks", TRUE>>,
      <<"create_list", "handleCreateList", TRUE>>,
      <<"create_list_in_folder", "handleCreateListInFolder", TRUE>>,
      <<"get_list", "handleGetList", TRUE>>,
      <<"update_list", "handleUpdateList", TRUE>>,
      <<"delete_list", "handleDeleteList", TRUE>>,
      <<"create_folder", "handleCreateFolder", TRUE>>,
      <<"get_folder", "handleGetFolder", TRUE>>,
      <<"update_folder", "handleUpdateFolder", TRUE>>,
      <<"delete_folder", "handleDeleteFolder", TRUE>>,
      <<"get_space_tags", "handleGetSpaceTags", TRUE>>,
      <<"add_tag_to_task", "handleAddTagToTask", TRUE>>,
      <<"remove_tag_from_task", "handleRemoveTagFromTask", TRUE>>,
      <<"get_task_time_entries", "handleGetTaskTimeEntries", TRUE>>,
      <<"start_time_tracking", "handleStartTimeTracking", TRUE>>,
      <<"stop_time_tracking", "handleStopTimeTracking", TRUE>>,
      <<"add_time_entry", "handleAddTimeEntry", TRUE>>,
      <<"delete_time_entry", "handleDeleteTimeEntry", TRUE>>,
      <<"get_current_time_entry", "handleGetCurrentTimeEntry", TRUE>>,
      <<"add_task_dependency", "handleAddTaskDependency", TRUE>>,
      <<"remove_task_dependency", "handleRemoveTaskDependency", TRUE>>,
      <<"get_task_dependencies", "handleGetTaskDependencies", TRUE>>,
      <<"add_bulk_dependencies", "handleAddBulkDependencies", TRUE>>,
      <<"create_document", "handleCreateDocument", TRUE>>,
      <<"get_document", "handleGetDocument", TRUE>>,
      <<"list_documents", "handleListDocuments", TRUE>>,
      <<"list_document_pages", "handleListDocumentPages", TRUE>>,
      <<"get_document_pages", "handleGetDocumentPages", TRUE>>,
      <<"create_document_page", "handleCreateDocumentPage", TRUE>>,
      <<"update_document_page", "handleUpdateDocumentPage", TRUE>>,
      <<"get_workspace_members", "handleGetWorkspaceMembers", FALSE>>,
      <<"find_member_by_name", "handleFindMemberByName", TRUE>>,
      <<"resolve_assignees", "handleResolveAssignees", TRUE>>,
      <<"call_clickup_api", "handleCallClickUpApi", TRUE>> }

HasCase(name) == \E c \in SwitchCases : c[1] = name
CaseOf(name) == CHOOSE c \in SwitchCases : c[1] = name

(***************************************************************************)
(* Dispatcher (invocation path)                                            *)
(***************************************************************************)
MethodNotFound == -32601
InvalidParams == -32602
ServerError == -32000
NoCode == 0
NoValue == << >>

\* the plain object { code, message } the dispatcher throws
ProtocolError(code, message) ==
    [kind |-> "thrown", code |-> code, errName |-> "", message |-> message,
     value |-> NoValue]
\* a handler's own error object reaching the client as it was raised
RaisedError(err) ==
    [kind |-> "thrown", code |-> NoCode, errName |-> err.name,
     message |-> err.message, value |-> NoValue]
Returned(value) ==
    [kind |-> "returned", code |-> NoCode, errName |-> "", message |-> << >>,
     value |-> value]
NoOutcome ==
    [kind |-> "none", code |-> NoCode, errName |-> "", message |-> << >>,
     value |-> NoValue]

\* what a handler returns on success: opaque to the dispatcher, determined by
\* the handler and the arguments it was called with
HandlerResult(call) == <<"result of", call.handler>> \o call.args

\* a rejection message that does not look at the allow-list
BlockedReason_alwaysDisabled(name) == <<"Tool '", name, "' is disabled.">>

\* the rejection message of the enablement check
BlockedReason(name) ==
    IF Len(enabledTools) > 0
    THEN <<"Tool '", name, "' is not in the enabled tools list.">>
    ELSE <<"Tool '", name, "' is disabled.">>

\* a catch block without the branch for the unknown-tool condition
CatchBlock_noUnknownBranch(name, err) ==
    IF err.name = "ValidationError"
    THEN ProtocolError(InvalidParams,
                       <<"Invalid params for tool ", name, ": ">> \o err.message)
    ELSE ProtocolError(ServerError,
                       <<"Error executing tool ", name, ": ">> \o err.message)

\* the catch block: a raised condition to a JSON-RPC error
CatchBlock(name, err) ==
    IF err.name = "UnknownToolError"
    THEN ProtocolError(MethodNotFound, <<"Method not found: ", name>>)
    ELSE IF err.name = "ValidationError"
    THEN ProtocolError(InvalidParams,
                       <<"Invalid params for tool ", name, ": ">> \o err.message)
    ELSE ProtocolError(ServerError,
                       <<"Error executing tool ", name, ": ">> \o err.message)

\* the error of the switch's default case
UnknownToolError(name) ==
    [name |-> "UnknownToolError", message |-> <<"Unknown tool: ", name>>]

\* a dispatcher that hands every handler no arguments
HandlerCall_noArgs(name, params) ==
    [handler |-> CaseOf(name)[2], args |-> << >>]

\* the call a case of the switch makes
HandlerCall(name, params) ==
    [handler |-> CaseOf(name)[2],
     args |-> IF CaseOf(name)[3] THEN <<params>> ELSE << >>]

\* what a handler does when called: raise at once, or return a promise
HandlerBehaviours ==
    {[kind |-> "throws", err |-> e] : e \in HandlerErrors}
        \cup {[kind |-> "promise", err |-> NoError]}
\* handleCallClickUpApi is an async function: it never raises before returning
\* its promise; the other handlers may do either
HandlerBehavioursOf(name) ==
    IF name = "call_clickup_api"
    THEN {hb \in HandlerBehaviours : hb.kind = "promise"}
    ELSE HandlerBehaviours
\* how a returned promise settles
Settlements ==
    {[kind |-> "rejected", err |-> e] : e \in HandlerErrors}
        \cup {[kind |-> "fulfilled", err |-> NoError]}

\* a dispatcher that looks the handler up and calls it before the enablement check
CallToolHandler_checkLate(name, params, hb) ==
    IF ~HasCase(name)
    THEN [status |-> "done", calls |-> << >>,
          outcome |-> CatchBlock(name, UnknownToolError(name))]
    ELSE IF ~isToolEnabled(name)
    THEN [status |-> "done", calls |-> <<HandlerCall(name, params)>>,
          outcome |-> ProtocolError(MethodNotFound, BlockedReason(name))]
    ELSE IF hb.kind = "throws"
    THEN [status |-> "done", calls |-> <<HandlerCall(name, params)>>,
          outcome |-> CatchBlock(name, hb.err)]
    ELSE [status |-> "awaiting", calls |-> <<HandlerCall(name, params)>>,
          outcome |-> NoOutcome]

\* a dispatcher that calls the handler again when its first call raised
CallToolHandler_retry(name, params, hb) ==
    IF ~isToolEnabled(name)
    THEN [status |-> "done", calls |-> << >>,
          outcome |-> ProtocolError(MethodNotFound, BlockedReason(name))]
    ELSE IF ~HasCase(name)
    THEN [status |-> "done", calls |-> << >>,
          outcome |-> CatchBlock(name, UnknownToolError(name))]
    ELSE IF hb.kind = "throws"
    THEN [status |-> "done",
          calls |-> <<HandlerCall(name, params), HandlerCall(name, params)>>,
          outcome |-> CatchBlock(name, hb.err)]
    ELSE [status |-> "awaiting", calls |-> <<HandlerCall(name, params)>>,
          outcome |-> NoOutcome]

\* the request handler up to the return of the switch: the enablement check,
\* the lookup, the handler call and the catch block around them
CallToolHandler(name, params, hb) ==
    IF ~isToolEnabled(name)
    THEN [status |-> "done", calls |-> << >>,
          outcome |-> ProtocolError(MethodNotFound, BlockedReason(name))]
    ELSE IF ~HasCase(name)
    THEN [status |-> "done", calls |-> << >>,
          outcome |-> CatchBlock(name, UnknownToolError(name))]
    ELSE IF hb.kind = "throws"
    THEN [status |-> "done", calls |-> <<HandlerCall(name, params)>>,
          outcome |-> CatchBlock(name, hb.err)]
    ELSE [status |-> "awaiting", calls |-> <<HandlerCall(name, params)>>,
          outcome |-> NoOutcome]

\* the switch returns the handler's promise without awaiting it inside the
\* try block: the request settles as that promise settles, past the catch block
ReturnedPromise(name, call, s) ==
    IF s.kind = "fulfilled"
    THEN Returned(HandlerResult(call))
    ELSE RaisedError(s.err)

\* how the called handler ended, as the environment saw it
NotCalled == [end |-> "notCalled", err |-> NoError]

IdleRequest ==
    [status |-> "idle", name |-> "", params |-> "", calls |-> << >>,
     handler |-> NotCalled, outcome |-> NoOutcome]

(***************************************************************************)
(* Cache prewarm (services/shared and TaskService.prewarmCaches)           *)
(***************************************************************************)
\* Promise.allSettled over the two service warm-ups, then the end of the
\* prewarm body: fulfilled once both have settled, whichever way
allSettled(ws, task) ==
    IF ws \in {"fulfilled", "rejected"} /\ task \in {"completed", "failed"}
    THEN "fulfilled"
    ELSE "pending"

\* a prewarm without the `if (prewarmPromise)` guard: every call runs the body
prewarmClickUpCaches_noGuard(wsb) ==
    /\ prewarmStarts' = prewarmStarts + 1
    /\ IF wsb = "throws"
       THEN /\ wsPrewarm' = "threw"
            /\ taskPrewarm' = "notStarted"
            /\ prewarmPromise' = "rejected"
       ELSE /\ wsPrewarm' = "pending"
            /\ taskPrewarm' = "pending"
            /\ prewarmPromise' = "pending"

\* prewarmClickUpCaches(): wsb is how workspaceService.prewarmCaches() behaves
\* when called ("throws": raises before returning a promise)
prewarmClickUpCaches(wsb) ==
    IF prewarmPromise # "null"
    THEN UNCHANGED <<prewarmPromise, wsPrewarm, taskPrewarm, prewarmStarts>>
    ELSE /\ prewarmStarts' = prewarmStarts + 1
         /\ IF wsb = "throws"
            THEN /\ wsPrewarm' = "threw"
                 /\ taskPrewarm' = "notStarted"
                 /\ prewarmPromise' = "rejected"
            ELSE /\ wsPrewarm' = "pending"
                 /\ taskPrewarm' = "pending"
                 /\ prewarmPromise' = "pending"

\* a caller calls prewarmClickUpCaches() and is handed the module's promise.
\* workspaceService.prewarmCaches() returns a promise here, as the async
\* TaskService.prewarmCaches() next to it in the allSettled array does.
PrewarmCall(c) ==
    /\ prewarmCallers[c] = NotHanded
    /\ prewarmClickUpCaches("promise")
    /\ prewarmCallers' = [prewarmCallers EXCEPT
                             ![c] = [run |-> prewarmStarts', at |-> prewarmPromise]]
    /\ UNCHANGED <<prewarmWarnings, api>>
    /\ UNCHANGED <<cfgVars, srvVars, req, lastTools, lastStub, enhVars>>

\* workspaceService.prewarmCaches() settles
WorkspacePrewarmSettles(o) ==
    /\ wsPrewarm = "pending"
    /\ wsPrewarm' = o
    /\ prewarmPromise' = allSettled(o, taskPrewarm)
    /\ UNCHANGED <<taskPrewarm, prewarmStarts, prewarmWarnings>>
    /\ UNCHANGED <<cfgVars, srvVars, req, lastTools, lastStub, enhVars, svcVars>>

\* TaskService.prewarmCaches() ends: "completed", or "failed" in its own
\* catch block; its promise is fulfilled either way
TaskPrewarmSettles(o) ==
    /\ taskPrewarm = "pending"
    /\ taskPrewarm' = o
    /\ prewarmPromise' = allSettled(wsPrewarm, o)
    /\ UNCHANGED <<wsPrewarm, prewarmStarts, prewarmWarnings>>
    /\ UNCHANGED <<cfgVars, srvVars, req, lastTools, lastStub, enhVars, svcVars>>

(***************************************************************************)
(* API passthrough: handleCallClickUpApi and CustomRequestService.callApi. *)
(* A value the client sends is undefined, a string (its characters) or a   *)
(* value of another type (a number).                                       *)
(***************************************************************************)
Undefined == [type |-> "undefined", chars |-> << >>]
Str(chars) == [type |-> "string", chars |-> chars]
Num == [type |-> "number", chars |-> << >>]

SupportedHttpMethods ==
    { <<"G", "E", "T">>, <<"P", "O", "S", "T">>, <<"P", "U", "T">>,
      <<"P", "A", "T", "C", "H">>, <<"D", "E", "L", "E", "T", "E">> }

\* String.prototype.toUpperCase
toUpperCaseAll(chars) == [i \in 1..Len(chars) |-> toUpperCase(chars[i])]

\* /^https?:\/\//i.test(path)
isAbsoluteUrl(chars) ==
    \/ StartsWith(toUpperCaseAll(chars), <<"H", "T", "T", "P", ":", "/", "/">>)
    \/ StartsWith(toUpperCaseAll(chars), <<"H", "T", "T", "P", "S", ":", "/", "/">>)

ClickUpServiceError(message) ==
    [name |-> "ClickUpServiceError", code |-> "INVALID_PARAMETER", message |-> message]
\* calling .toUpperCase on a value that has no such method
TypeError ==
    [name |-> "TypeError", code |-> "",
     message |-> <<"method.toUpperCase is not a function">>]

ApiThrows(err) == [error |-> Some(err), request |-> None]
ApiRequests(method, url) == [error |-> None, request |-> Some([method |-> method, url |-> url])]

\* path.startsWith('/') ? path : `/${path}`
normalizePath(chars) ==
    IF StartsWith(chars, <<"/">>) THEN chars ELSE <<"/">> \o chars

\* callApi up to its backend request: the error it throws, or the request
\* it hands to makeRequest
callApi(options) ==
    LET method == options.method
        path == options.path
    IN IF method.type = "number"
       THEN ApiThrows(TypeError)
       ELSE IF method.type = "undefined" \/ method.chars = << >>
       THEN ApiThrows(ClickUpServiceError(<<"HTTP method is required">>))
       ELSE IF toUpperCaseAll(method.chars) \notin SupportedHttpMethods
       THEN ApiThrows(ClickUpServiceError(
                <<"Unsupported HTTP method: ">> \o method.chars
                    \o <<". Use GET, POST, PUT, PATCH, or DELETE.">>))
       ELSE IF path.type # "string" \/ path.chars = << >>
       THEN ApiThrows(ClickUpServiceError(<<"API path is required">>))
       ELSE IF isAbsoluteUrl(path.chars)
       THEN ApiThrows(ClickUpServiceError(
                <<"Provide ClickUp API paths relative to the API root (e.g., /team/{teamId}/goal)">>))
       ELSE ApiRequests(toUpperCaseAll(method.chars), normalizePath(path.chars))

\* const { method, path, ... } = params || {}
destructure(params) ==
    IF params = None
    THEN [method |-> Undefined, path |-> Undefined]
    ELSE params[1]

\* the `arguments` a client sends to call_clickup_api
ApiMethods ==
    { Undefined, Num, Str(<< >>), Str(<<"G", "E", "T">>), Str(<<"g", "e", "t">>),
      Str(<<"P", "o", "s", "t">>), Str(<<"p", "u", "t">>), Str(<<"P", "A", "T", "C", "H">>),
      Str(<<"d", "e", "l", "e", "t", "e">>), Str(<<"H", "E", "A", "D">>), Str(<<"g", "e", "t", "x">>) }
ApiPaths ==
    { Undefined, Num, Str(<< >>), Str(<<"/", "t", "e", "a", "m", "/", "1", "/", "g", "o", "a", "l">>),
      Str(<<"s", "p", "a", "c", "e">>), Str(<<"h", "t", "t", "p", ":", "/", "/", "a", ".", "i", "o", "/", "x">>),
      Str(<<"h", "t", "t", "p", "s", ":", "/", "/", "a", ".", "i", "o">>), Str(<<"H", "T", "T", "P", "S", ":", "/", "/", "a", ".", "i", "o">>),
      Str(<<"h", "t", "t", "p", "x">>) }
ApiParams ==
    {None} \cup {Some([method |-> m, path |-> p]) : m \in ApiMethods, p \in ApiPaths}

\* handleCallClickUpApi(params) up to the await of callApi: a failed call
\* rejects the handler's promise, otherwise the backend request is in flight
HandleCallClickUpApi(params) ==
    /\ api = NoApiCall
    /\ LET options == destructure(params)
           call == callApi(options)
       IN api' = [params |-> params,
                  options |-> options,
                  requests |-> IF call.request = None THEN << >> ELSE call.request,
                  status |-> IF call.error = None THEN "awaiting" ELSE "rejected",
                  error |-> call.error,
                  returned |-> None]
    /\ UNCHANGED <<cfgVars, srvVars, pwVars, req, lastTools, lastStub, enhVars,
                   prewarmCallers>>

\* makeRequest settles: with a response, of which callApi returns the status,
\* data and headers with the normalized path and method, and the handler
\* the same five fields; or with the backend's failure
BackendResponds(ok) ==
    /\ api # NoApiCall
    /\ api.status = "awaiting"
    /\ api' = IF ok
              THEN [api EXCEPT
                      !.status = "fulfilled",
                      !.returned = Some([status |-> "200",
                                         path |-> api.requests[1].url,
                                         method |-> api.requests[1].method])]
              ELSE [api EXCEPT
                      !.status = "rejected",
                      !.error = Some([name |-> "ClickUpServiceError", code |-> "UNKNOWN",
                                      message |-> <<"backend failure">>])]
    /\ UNCHANGED <<cfgVars, srvVars, pwVars, req, lastTools, lastStub, enhVars,
                   prewarmCallers>>

(***************************************************************************)
(* Server configuration guard                                              *)
(***************************************************************************)
\* the protocol methods, in the order configureServer registers them
Methods == <<"tools/list", "resources/list", "tools/call", "prompts/list", "prompts/get">>

\* a guard that never reports the server as configured
alreadyConfigured_never(flag) == FALSE

\* the guard at the top of configureServer
alreadyConfigured(flag) == flag

\* a prewarm awaited without a catch: its failure leaves configureServer
prewarmCatch_propagates(promise) ==
    [raised |-> promise = "rejected", warned |-> FALSE]

\* prewarmClickUpCaches().catch(...): a rejected prewarm is logged, not raised
prewarmCatch(promise) ==
    [raised |-> FALSE, warned |-> promise = "rejected"]

\* configureServer(); failAt = 0: every registration succeeds, failAt = k: the
\* k-th setRequestHandler call raises
configureServer(wsb, failAt) ==
    /\ configureCalls < MaxConfigureCalls
    /\ configureCalls' = configureCalls + 1
    /\ IF alreadyConfigured(isServerConfigured)
       THEN /\ configureReturn' = "server"
            /\ UNCHANGED <<isServerConfigured, registered, pwVars>>
       ELSE /\ isServerConfigured' = TRUE
            /\ prewarmClickUpCaches(wsb)
            /\ LET kick == prewarmCatch(prewarmPromise')
                   stop == IF kick.raised THEN 1 ELSE failAt
               IN /\ prewarmWarnings' = prewarmWarnings + (IF kick.warned THEN 1 ELSE 0)
                  /\ registered' =
                        [m \in Range(Methods) |->
                            IF stop = 0 \/ (\E i \in 1..(stop - 1) : Methods[i] = m)
                            THEN registered[m] + 1
                            ELSE registered[m]]
                  /\ configureReturn' = IF stop = 0 THEN "server" ELSE "raised"
    /\ UNCHANGED <<cfgVars, req, lastTools, lastStub, enhVars, svcVars>>

ConfigureServer == \E wsb \in {"throws", "promise"} : configureServer(wsb, 0)

ConfigureServerRaises ==
    \E wsb \in {"throws", "promise"}, k \in 1..Len(Methods) : configureServer(wsb, k)

(***************************************************************************)
(* Requests                                                                *)
(***************************************************************************)
\* a discovery request
ListTools ==
    /\ registered["tools/list"] > 0
    /\ lastTools' = [answered |-> TRUE, tools |-> ListToolsResult]
    /\ UNCHANGED <<cfgVars, srvVars, pwVars, req, lastStub, enhVars, svcVars>>

\* an invocation request arrives in slot r and runs to the switch's return
CallTool(r, name, params, hb) ==
    /\ registered["tools/call"] > 0
    /\ req[r].status # "awaiting"
    /\ hb \in HandlerBehavioursOf(name)
    /\ LET run == CallToolHandler(name, params, hb)
       IN req' = [req EXCEPT ![r] =
                    [status |-> run.status, name |-> name, params |-> params,
                     calls |-> run.calls,
                     handler |-> IF run.calls = << >> THEN NotCalled
                                 ELSE IF hb.kind = "throws"
                                 THEN [end |-> "threw", err |-> hb.err]
                                 ELSE [end |-> "pending", err |-> NoError],
                     outcome |-> run.outcome]]
    /\ UNCHANGED <<cfgVars, srvVars, pwVars, lastTools, lastStub, enhVars, svcVars>>

\* a settlement that reaches every request in flight: one handler's promise
\* decides them all
HandlerSettles_sharedAcrossRequests(r, s) ==
    /\ req[r].status = "awaiting"
    /\ req' = [q \in DOMAIN req |->
                 IF req[q].status = "awaiting"
                 THEN [req[q] EXCEPT
                         !.status = "done",
                         !.handler = [end |-> s.kind, err |-> s.err],
                         !.outcome = ReturnedPromise(req[q].name, req[q].calls[1], s)]
                 ELSE req[q]]
    /\ UNCHANGED <<cfgVars, srvVars, pwVars, lastTools, lastStub, enhVars, svcVars>>

\* the promise a handler returned settles
HandlerSettles(r, s) ==
    /\ req[r].status = "awaiting"
    /\ req' = [req EXCEPT ![r].status = "done",
                          ![r].handler = [end |-> s.kind, err |-> s.err],
                          ![r].outcome = ReturnedPromise(req[r].name, req[r].calls[1], s)]
    /\ UNCHANGED <<cfgVars, srvVars, pwVars, lastTools, lastStub, enhVars, svcVars>>

\* the answers of the three stub handlers; none of them reads its request
NoStubAnswer ==
    [method |-> "", kind |-> "none", key |-> "", items |-> << >>, message |-> << >>]
ListResourcesHandler ==
    [method |-> "resources/list", kind |-> "returned", key |-> "resources",
     items |-> << >>, message |-> << >>]
ListPromptsHandler ==
    [method |-> "prompts/list", kind |-> "returned", key |-> "prompts",
     items |-> << >>, message |-> << >>]
\* a prompts/get handler that answers with an empty prompt instead of failing
GetPromptHandler_returnsEmpty ==
    [method |-> "prompts/get", kind |-> "returned", key |-> "messages",
     items |-> << >>, message |-> << >>]
GetPromptHandler ==
    [method |-> "prompts/get", kind |-> "thrown", key |-> "",
     items |-> << >>, message |-> <<"Prompt not found">>]

\* a resources/list request
ListResources ==
    /\ registered["resources/list"] > 0
    /\ lastStub' = ListResourcesHandler
    /\ UNCHANGED <<cfgVars, srvVars, pwVars, req, lastTools, enhVars, svcVars>>

\* a prompts/list request
ListPrompts ==
    /\ registered["prompts/list"] > 0
    /\ lastStub' = ListPromptsHandler
    /\ UNCHANGED <<cfgVars, srvVars, pwVars, req, lastTools, enhVars, svcVars>>

\* a prompts/get request, for whatever prompt name
GetPrompt ==
    /\ registered["prompts/get"] > 0
    /\ lastStub' = GetPromptHandler
    /\ UNCHANGED <<cfgVars, srvVars, pwVars, req, lastTools, enhVars, svcVars>>

(***************************************************************************)
(* Specifications                                                          *)
(***************************************************************************)
Init ==
    /\ enabledTools \in ConfigLists
    /\ disabledTools \in ConfigLists
    /\ documentSupport \in {"true", "false"}
    /\ isServerConfigured = FALSE
    /\ registered = [m \in Range(Methods) |-> 0]
    /\ configureCalls = 0
    /\ configureReturn = "none"
    /\ prewarmPromise = "null"
    /\ wsPrewarm = "notStarted"
    /\ taskPrewarm = "notStarted"
    /\ prewarmStarts = 0
    /\ prewarmWarnings = 0
    /\ req = [r \in Requests |-> IdleRequest]
    /\ lastTools = [answered |-> FALSE, tools |-> << >>]
    /\ lastStub = NoStubAnswer
    /\ descriptor = NoTool
    /\ enhanced = << >>
    /\ prewarmCallers = [c \in Callers |-> NotHanded]
    /\ api = NoApiCall

Next ==
    \/ ConfigureServer
    \/ \E o \in {"fulfilled", "rejected"} : WorkspacePrewarmSettles(o)
    \/ \E o \in {"completed", "failed"} : TaskPrewarmSettles(o)
    \/ ListTools
    \/ \E r \in Requests, name \in ReqNames, params \in Params, hb \in HandlerBehaviours :
          CallTool(r, name, params, hb)
    \/ \E r \in Requests, s \in Settlements : HandlerSettles(r, s)

Spec == Init /\ [][Next]_vars

\* Spec takes every setRequestHandler call to return: the server advertises
\* the tools, prompts and resources capabilities the five registrations need.
\* SpecRegistrationRaises is the same program when such a call may raise.
NextRegistrationRaises == Next \/ ConfigureServerRaises

SpecRegistrationRaises == Init /\ [][NextRegistrationRaises]_vars

\* the server with two invocations in flight at a time, their handlers
\* settling in either order (the background prewarm stays in flight)
InitConcurrent ==
    /\ enabledTools \in ConfigLists
    /\ disabledTools \in ConfigLists
    /\ documentSupport \in {"true", "false"}
    /\ isServerConfigured = FALSE
    /\ registered = [m \in Range(Methods) |-> 0]
    /\ configureCalls = 0
    /\ configureReturn = "none"
    /\ prewarmPromise = "null"
    /\ wsPrewarm = "notStarted"
    /\ taskPrewarm = "notStarted"
    /\ prewarmStarts = 0
    /\ prewarmWarnings = 0
    /\ req = [r \in ConcurrentRequests |-> IdleRequest]
    /\ lastTools = [answered |-> FALSE, tools |-> << >>]
    /\ lastStub = NoStubAnswer
    /\ descriptor = NoTool
    /\ enhanced = << >>
    /\ prewarmCallers = [c \in Callers |-> NotHanded]
    /\ api = NoApiCall

NextConcurrent ==
    \/ ConfigureServer
    \/ ListTools
    \/ \E r \in ConcurrentRequests, name \in ConcurrentNames, params \in Params,
          hb \in HandlerBehaviours :
          CallTool(r, name, params, hb)
    \/ \E r \in ConcurrentRequests, s \in Settlements : HandlerSettles(r, s)

SpecConcurrent == InitConcurrent /\ [][NextConcurrent]_vars

\* the shared-services module alone: prewarmClickUpCaches called directly, any
\* number of times, between the settlements of the two service warm-ups
NextPrewarm ==
    \/ \E c \in Callers : PrewarmCall(c)
    \/ \E o \in {"fulfilled", "rejected"} : WorkspacePrewarmSettles(o)
    \/ \E o \in {"completed", "failed"} : TaskPrewarmSettles(o)

SpecPrewarm == Init /\ [][NextPrewarm]_vars

\* the API passthrough alone: one call_clickup_api handler call and the
\* answer of the backend
NextCallApi ==
    \/ \E params \in ApiParams : HandleCallClickUpApi(params)
    \/ \E ok \in BOOLEAN : BackendResponds(ok)

SpecCallApi == Init /\ [][NextCallApi]_vars

\* the metadata enhancer alone: a descriptor is drawn and enhanced, and the
\* result enhanced again
Enhance ==
    /\ descriptor # NoTool
    /\ Len(enhanced) < MaxPasses
    /\ enhanced' = Append(enhanced,
                          enhanceToolMetadata(IF enhanced = << >> THEN descriptor
                                              ELSE enhanced[Len(enhanced)]))
    /\ UNCHANGED <<cfgVars, srvVars, pwVars, req, lastTools, lastStub, descriptor, svcVars>>

InitEnhance ==
    /\ enabledTools = << >>
    /\ disabledTools = << >>
    /\ documentSupport = "false"
    /\ isServerConfigured = FALSE
    /\ registered = [m \in Range(Methods) |-> 0]
    /\ configureCalls = 0
    /\ configureReturn = "none"
    /\ prewarmPromise = "null"
    /\ wsPrewarm = "notStarted"
    /\ taskPrewarm = "notStarted"
    /\ prewarmStarts = 0
    /\ prewarmWarnings = 0
    /\ req = [r \in Requests |-> IdleRequest]
    /\ lastTools = [answered |-> FALSE, tools |-> << >>]
    /\ lastStub = NoStubAnswer
    /\ descriptor \in ToolDescriptors
    /\ enhanced = << >>
    /\ prewarmCallers = [c \in Callers |-> NotHanded]
    /\ api = NoApiCall

NextEnhance == Enhance

SpecEnhance == InitEnhance /\ [][NextEnhance]_vars

\* the server under a client that also sends the resource and prompt
\* requests, which the server answers with stubs.  The background prewarm,
\* which no request handler reads, stays in flight here.
NextStubs ==
    \/ ConfigureServer
    \/ ListTools
    \/ \E r \in Requests, name \in ReqNames, params \in Params, hb \in HandlerBehaviours :
          CallTool(r, name, params, hb)
    \/ \E r \in Requests, s \in Settlements : HandlerSettles(r, s)
    \/ ListResources
    \/ ListPrompts
    \/ GetPrompt

SpecStubs == Init /\ [][NextStubs]_vars

(***************************************************************************)
(* Properties                                                              *)
(***************************************************************************)
Received(r) == req[r].status # "idle"
Done(r) == req[r].status = "done"
\* the handler called for request r failed, at once or through its promise
HandlerFailed(r) == req[r].handler.end \in {"threw", "rejected"}

\* C1: an invocation of a name the enablement filter rejects fails with code
\* -32601 and no handler is called at any point of that invocation.
C1_DisabledRejectedBeforeHandler ==
    \A r \in Requests :
        (Received(r) /\ ~isToolEnabled(req[r].name)) =>
            /\ Done(r)
            /\ req[r].outcome.kind = "thrown"
            /\ req[r].outcome.code = -32601
            /\ req[r].calls = << >>
            /\ req[r].handler = NotCalled

\* a registered (bound) name is invoked while the filter rejects it
C1_Witness ==
    \E r \in Requests :
        /\ Done(r)
        /\ ~isToolEnabled(req[r].name)
        /\ HasCase(req[r].name)
        /\ req[r].outcome.code = -32601

\* C2: whenever the handler of an enabled, bound tool fails with a condition
\* named ValidationError and message m, raised at once or through its
\* promise, the invocation fails with code -32602 and message
\* "Invalid params for tool <name>: <m>".
C2_ValidationErrorMapped ==
    \A r \in Requests :
        (HandlerFailed(r) /\ req[r].handler.err.name = "ValidationError") =>
            /\ Done(r)
            /\ req[r].outcome.kind = "thrown"
            /\ req[r].outcome.code = -32602
            /\ req[r].outcome.message =
                  <<"Invalid params for tool ", req[r].name, ": ">>
                      \o req[r].handler.err.message

\* C3 as stated: a name that passes the filter and has no handler fails with
\* code -32601 and a message containing "Unknown tool: <name>".
C3_UnknownToolMessage ==
    \A r \in Requests :
        (Received(r) /\ isToolEnabled(req[r].name) /\ ~HasCase(req[r].name)) =>
            /\ req[r].outcome.kind = "thrown"
            /\ req[r].outcome.code = -32601
            /\ Contains(req[r].outcome.message, <<"Unknown tool: ", req[r].name>>)

\* C3 amended: a name that passes the filter and has no handler fails with
\* code -32601 and the message "Method not found: <name>", no handler called.
C3_MethodNotFoundMessage ==
    \A r \in Requests :
        (Received(r) /\ isToolEnabled(req[r].name) /\ ~HasCase(req[r].name)) =>
            /\ Done(r)
            /\ req[r].outcome.kind = "thrown"
            /\ req[r].outcome.code = -32601
            /\ req[r].outcome.message = <<"Method not found: ", req[r].name>>
            /\ req[r].calls = << >>

\* an unbound name that passes the filter has been answered
C3_Witness ==
    \E r \in Requests :
        /\ Done(r)
        /\ req[r].name = "not_a_real_tool"
        /\ isToolEnabled(req[r].name)
        /\ req[r].outcome.kind = "thrown"

\* C4: whenever the handler of an enabled, bound tool fails with a condition
\* that is neither a ValidationError nor an unknown-tool condition, raised at
\* once or through its promise, the invocation fails with code -32000 and a
\* message containing the tool name and the handler's message.
C4_ExecutionErrorMapped ==
    \A r \in Requests :
        (HandlerFailed(r)
            /\ req[r].handler.err.name \notin {"ValidationError", "UnknownToolError"}) =>
            /\ Done(r)
            /\ req[r].outcome.kind = "thrown"
            /\ req[r].outcome.code = -32000
            /\ Contains(req[r].outcome.message, <<req[r].name>>)
            /\ Contains(req[r].outcome.message, req[r].handler.err.message)

\* C5: every invocation that does not succeed ends in a protocol error whose
\* code is one of -32601, -32602, -32000 and whose message embeds the tool name.
C5_FailuresAreProtocolErrors ==
    \A r \in Requests :
        (Done(r) /\ req[r].outcome.kind # "returned") =>
            /\ req[r].outcome.kind = "thrown"
            /\ req[r].outcome.code \in {-32601, -32602, -32000}
            /\ Contains(req[r].outcome.message, <<req[r].name>>)

\* membership in a configuration list, as the specification states the filter
AllowListed(n) == n \in Range(enabledTools)
DenyListed(n) == n \in Range(disabledTools)
FilterAdmits(n) ==
    IF enabledTools # << >> THEN AllowListed(n)
    ELSE IF disabledTools # << >> THEN ~DenyListed(n)
    ELSE TRUE

\* C6: isToolEnabled(n) is membership in enabledTools when that list is
\* non-empty, whatever disabledTools holds; non-membership in disabledTools
\* when only that list is non-empty; true when both are empty.  Every
\* invocation is let through to the lookup exactly when the filter admits it.
C6_FilterPrecedence ==
    /\ \A n \in ReqNames \cup CfgNames : isToolEnabled(n) = FilterAdmits(n)
    /\ \A r \in Requests :
          Received(r) =>
              (req[r].outcome = ProtocolError(MethodNotFound, BlockedReason(req[r].name))
                  <=> ~FilterAdmits(req[r].name))

\* a name on both lists is invoked and reaches its handler
C6_Witness ==
    \E r \in Requests :
        /\ AllowListed(req[r].name)
        /\ DenyListed(req[r].name)
        /\ Len(enabledTools) = 2
        /\ req[r].calls # << >>

AllRegisteredOnce == \A m \in Range(Methods) : registered[m] = 1

\* C7: after two or more configureServer calls each of the five protocol
\* handlers has been registered exactly once and the prewarm was started
\* exactly once; every call after the first registers nothing, starts nothing
\* and returns the server.
C7_ConfigureOnce ==
    /\ [](configureCalls >= 2 =>
              /\ AllRegisteredOnce
              /\ prewarmStarts = 1
              /\ configureReturn = "server")
    /\ [][(configureCalls >= 1 /\ configureCalls' = configureCalls + 1) =>
              /\ registered' = registered
              /\ prewarmStarts' = prewarmStarts
              /\ isServerConfigured' = isServerConfigured
              /\ configureReturn' = "server"]_vars

\* configureServer has been called a second time
C7_Witness ==
    /\ configureCalls >= 2
    /\ isServerConfigured
    /\ AllRegisteredOnce

\* C8: the configured flag becomes true only on a configureServer call that
\* succeeds: after a first call in which a handler registration raised, the
\* flag is still false.
C8_FlagFalseAfterFailedConfigure ==
    (configureCalls = 1 /\ configureReturn = "raised") => ~isServerConfigured

PrewarmFailed == wsPrewarm \in {"threw", "rejected"} \/ taskPrewarm = "failed"

\* C9: whatever the prewarm does, the first configureServer call returns the
\* server with all five handlers registered before any warm-up has completed;
\* a failed prewarm is logged and never raised out of configureServer; and no
\* step of the prewarm changes the answer of a discovery or invocation
\* request or keeps a request from being served.
C9_PrewarmAbsorbed ==
    /\ [][(~isServerConfigured /\ configureCalls' = configureCalls + 1) =>
              /\ configureReturn' = "server"
              /\ \A m \in Range(Methods) : registered'[m] = 1
              /\ wsPrewarm' \in {"pending", "threw"}
              /\ taskPrewarm' \in {"pending", "notStarted"}]_vars
    /\ [](/\ configureReturn # "raised"
          /\ prewarmWarnings = (IF prewarmPromise = "rejected" THEN 1 ELSE 0)
          /\ (configureCalls >= 1 =>
                 /\ ENABLED ListTools
                 /\ \A r \in Requests :
                       req[r].status # "awaiting" =>
                           ENABLED CallTool(r, "get_task", "p1",
                                            [kind |-> "promise", err |-> NoError])))
    /\ [][(wsPrewarm' # wsPrewarm \/ taskPrewarm' # taskPrewarm
              \/ prewarmPromise' # prewarmPromise) =>
              UNCHANGED <<req, lastTools>>]_vars

\* an invocation and a discovery were answered after both warm-ups failed
C9_Witness ==
    /\ wsPrewarm = "rejected"
    /\ taskPrewarm = "failed"
    /\ lastTools.answered
    /\ \E r \in Requests : Done(r) /\ req[r].outcome.kind = "returned"

\* C10 as stated: every handler the dispatcher calls is called with exactly
\* the request's params, and a fulfilled handler's result is returned unchanged.
C10_ParamsPassedToEveryHandler ==
    \A r \in Requests :
        req[r].calls # << >> =>
            /\ req[r].calls[1].args = <<req[r].params>>
            /\ (req[r].handler.end = "fulfilled" =>
                   req[r].outcome = Returned(HandlerResult(req[r].calls[1])))

\* the tools whose handlers the switch calls without arguments
NoArgumentTools == {"get_workspace_hierarchy", "get_workspace_members"}

\* C10 amended: for an enabled, bound tool the dispatcher calls the bound
\* handler once, with exactly the request's params, except that the handlers
\* of get_workspace_hierarchy and get_workspace_members are called with no
\* arguments; a fulfilled handler's result is returned unchanged.
C10_ParamsPassedExceptNoArgumentTools ==
    /\ \A c \in SwitchCases : c[3] = (c[1] \notin NoArgumentTools)
    /\ \A r \in Requests :
          (Received(r) /\ isToolEnabled(req[r].name) /\ HasCase(req[r].name)) =>
              /\ Len(req[r].calls) = 1
              /\ req[r].calls[1].handler = CaseOf(req[r].name)[2]
              /\ req[r].calls[1].args =
                    (IF req[r].name \in NoArgumentTools THEN << >>
                     ELSE <<req[r].params>>)
              /\ (req[r].handler.end = "fulfilled" =>
                     /\ Done(r)
                     /\ req[r].outcome.kind = "returned"
                     /\ req[r].outcome.value =
                           <<"result of", req[r].calls[1].handler>>
                               \o req[r].calls[1].args)

\* a handler that was passed the second params object has fulfilled
C10_Witness ==
    \E r \in Requests :
        /\ req[r].name = "get_task"
        /\ req[r].params = "p2"
        /\ req[r].handler.end = "fulfilled"
        /\ req[r].outcome.kind = "returned"

\* C11: for every invocation request at most one handler binding is called,
\* and it is called at most once, whether the handler returns, raises or
\* rejects; while a request waits for its handler, and once it has ended, no
\* further call is made for it.
C11_HandlerCalledAtMostOnce ==
    /\ [](\A r \in DOMAIN req :
            /\ Len(req[r].calls) <= 1
            /\ (req[r].handler # NotCalled) => Len(req[r].calls) = 1)
    /\ [][\A r \in DOMAIN req :
            (req[r].status = "awaiting") => (req'[r].calls = req[r].calls)]_vars

\* a request whose handler failed (at once or through its promise) is done
\* with that single call on record
C11_Witness ==
    /\ \E r \in Requests :
          Done(r) /\ req[r].handler.end = "threw" /\ Len(req[r].calls) = 1
             /\ req[r].name = "get_task"

\* the seven document operations, in the order the claim lists them
DocumentOperations ==
    << "create_document", "get_document", "list_documents",
       "list_document_pages", "get_document_pages",
       "create_document_page", "update_document_page" >>
IsDocumentOperation(n) == n \in Range(DocumentOperations)
IsOtherOperation(n) == ~IsDocumentOperation(n)
\* the catalog without its document sub-list: the same under either flag value
OtherOperations == SubSeq(tools, 1, Len(tools) - Len(documentModule))

\* C12: with both filter lists empty, discovery with the document flag off
\* returns the non-document catalog and no document operation; with the flag
\* on it returns that same catalog followed by exactly the seven document
\* operations, all of them after every non-document operation.
C12_DocumentOperationsFollowFlag ==
    (lastTools.answered /\ enabledTools = << >> /\ disabledTools = << >>) =>
        /\ SelectSeq(lastTools.tools, IsOtherOperation) = OtherOperations
        /\ \A i \in 1..Len(OtherOperations) : IsOtherOperation(OtherOperations[i])
        /\ IF documentSupport = "true"
           THEN lastTools.tools = OtherOperations \o DocumentOperations
           ELSE lastTools.tools = OtherOperations

\* discovery answered with the flag on and nothing filtered
C12_Witness ==
    /\ lastTools.answered
    /\ enabledTools = << >>
    /\ disabledTools = << >>
    /\ documentSupport = "true"
    /\ Len(lastTools.tools) = Len(OtherOperations) + Len(DocumentOperations)

\* C13: the names a discovery request returns are exactly the names of the
\* declaration-order catalog that the enablement filter admits, in that
\* order; a later discovery request under the same configuration returns the
\* same sequence.
C13_DiscoveryIsFilteredDeclarationOrder ==
    /\ [](lastTools.answered => lastTools.tools = SelectSeq(tools, FilterAdmits))
    /\ [][(lastTools.answered /\ lastTools'.answered) =>
              lastTools'.tools = lastTools.tools]_vars

\* discovery answered under a configuration that filters some names out and
\* keeps more than one
C13_Witness ==
    /\ lastTools.answered
    /\ Len(lastTools.tools) > 1
    /\ Len(lastTools.tools) < Len(tools)

\* C18: the message of an invocation the filter blocks is "Tool '<name>' is
\* not in the enabled tools list." exactly when enabledTools is non-empty, and
\* "Tool '<name>' is disabled." otherwise; a name with no handler binding
\* that the filter rejects gets this message and not the unknown-tool one.
C18_BlockedMessageFollowsAllowList ==
    \A r \in Requests :
        (Received(r) /\ ~FilterAdmits(req[r].name)) =>
            /\ Done(r)
            /\ req[r].outcome.kind = "thrown"
            /\ req[r].outcome.code = -32601
            /\ (enabledTools # << >>) <=>
                  (req[r].outcome.message =
                      <<"Tool '", req[r].name, "' is not in the enabled tools list.">>)
            /\ (enabledTools = << >>) <=>
                  (req[r].outcome.message = <<"Tool '", req[r].name, "' is disabled.">>)
            /\ ~Contains(req[r].outcome.message, <<"Method not found: ">>)
            /\ ~Contains(req[r].outcome.message, <<"Unknown tool: ">>)

\* a name with no binding is blocked by a non-empty allow-list
C18_Witness ==
    \E r \in Requests :
        /\ Done(r)
        /\ ~HasCase(req[r].name)
        /\ enabledTools # << >>
        /\ req[r].outcome.message =
              <<"Tool '", req[r].name, "' is not in the enabled tools list.">>

\* C20: under every configuration, a tool name that the discovery catalog of
\* that configuration does not list is never routed to a handler: every
\* request for which a handler was called names a discoverable tool.
C20_UndiscoverableNeverRouted ==
    \A r \in Requests :
        (req[r].calls # << >>) => req[r].name \in Range(ListToolsResult)

\* C17: once the server is configured, a resource-list request returns an
\* empty list, a prompt-list request returns an empty list and a prompt-get
\* request fails with the not-found error, whatever the configuration and
\* whatever requests came before.
C17_StubsAnswerEmptyOrNotFound ==
    /\ (lastStub # NoStubAnswer) => isServerConfigured
    /\ (lastStub.method = "resources/list") =>
          (lastStub.kind = "returned" /\ lastStub.key = "resources"
             /\ lastStub.items = << >>)
    /\ (lastStub.method = "prompts/list") =>
          (lastStub.kind = "returned" /\ lastStub.key = "prompts"
             /\ lastStub.items = << >>)
    /\ (lastStub.method = "prompts/get") =>
          (lastStub.kind = "thrown" /\ lastStub.message = <<"Prompt not found">>)
    /\ isServerConfigured =>
          /\ ENABLED ListResources
          /\ ENABLED ListPrompts
          /\ ENABLED GetPrompt

\* a prompt-get request failed after an invocation and a discovery request
\* had been answered
C17_Witness ==
    /\ lastStub.method = "prompts/get"
    /\ lastStub.kind = "thrown"
    /\ lastTools.answered
    /\ \E r \in Requests : Done(r)

\* the outcome of request r as its own name, arguments and handler outcome
\* and the configuration decide it
OwnOutcome(r) ==
    LET n == req[r].name
        h == req[r].handler
    IN IF ~FilterAdmits(n)
       THEN ProtocolError(-32601,
                IF enabledTools # << >>
                THEN <<"Tool '", n, "' is not in the enabled tools list.">>
                ELSE <<"Tool '", n, "' is disabled.">>)
       ELSE IF ~HasCase(n)
       THEN ProtocolError(-32601, <<"Method not found: ", n>>)
       ELSE IF h.end = "threw" THEN CatchBlock(n, h.err)
       ELSE IF h.end = "rejected" THEN RaisedError(h.err)
       ELSE Returned(HandlerResult(HandlerCall(n, req[r].params)))

\* C19: with several invocations in flight and their handlers settling in any
\* order, the outcome of each invocation is decided by its own name, arguments
\* and handler outcome and by the configuration; a step of one request (its
\* handler failing included) changes no other request, nor the configured
\* flag, nor the configuration lists, and a request whose handler never
\* settles does not keep another request from being served.
C19_RequestsAreIndependent ==
    /\ [](\A r \in DOMAIN req : Done(r) => req[r].outcome = OwnOutcome(r))
    /\ [][\A r \in DOMAIN req :
            (req'[r] # req[r]) =>
                /\ \A q \in DOMAIN req \ {r} : req'[q] = req[q]
                /\ UNCHANGED <<isServerConfigured, enabledTools, disabledTools,
                               documentSupport>>]_vars
    /\ [](\A r \in DOMAIN req : \A q \in DOMAIN req \ {r} :
            (req[r].status = "awaiting" /\ req[q].status # "awaiting") =>
                ENABLED CallTool(q, "get_task", "p1",
                                 [kind |-> "promise", err |-> NoError]))

\* one request got its result while an earlier handler's promise for the
\* same tool is still unsettled
C19_Witness ==
    /\ DOMAIN req = ConcurrentRequests
    /\ req["r1"].name = "get_task"
    /\ req["r2"].name = "get_task"
    /\ req["r1"].status = "awaiting"
    /\ Done("r2")
    /\ req["r2"].outcome.kind = "returned"

\* the annotations of the descriptor after one pass of the enhancer
EnhancedAnnotations == enhanced[1].annotations[1]
\* the descriptor supplies a value for annotation key k
Supplies(k) ==
    descriptor.annotations # None /\ k \in DOMAIN descriptor.annotations[1]
\* the value computed for annotation key k from the name alone
Inferred(k) ==
    IF k = "title" THEN formatTitleFromName(descriptor.name)
    ELSE inferredAnnotations(descriptor)[k]

\* C14: for each of readOnlyHint, destructiveHint, idempotentHint,
\* openWorldHint and title, the enhanced descriptor carries the value the
\* descriptor supplies for that key when it supplies one, and the inferred
\* value only when it supplies none.
C14_ExplicitAnnotationsWin ==
    (enhanced # << >>) =>
        \A k \in AnnotationKeys :
            /\ k \in DOMAIN EnhancedAnnotations
            /\ EnhancedAnnotations[k] =
                  IF Supplies(k) THEN descriptor.annotations[1][k] ELSE Inferred(k)

\* get_task, inferred read-only, says it is not; the key it leaves out is inferred
C14_Witness ==
    /\ enhanced # << >>
    /\ descriptor.name = <<"g", "e", "t", "_", "t", "a", "s", "k">>
    /\ Supplies("readOnlyHint")
    /\ ~descriptor.annotations[1]["readOnlyHint"]
    /\ ~EnhancedAnnotations["readOnlyHint"]
    /\ ~Supplies("idempotentHint")
    /\ EnhancedAnnotations["idempotentHint"]
    /\ Supplies("title")
    /\ EnhancedAnnotations["title"] = <<"M", "y", " ", "T", "o", "o", "l">>

\* the read-only names as the claim words them: one of four prefixes, or
\* one of two whole names
StartsWithReadPrefix(name) ==
    \/ StartsWith(name, <<"g", "e", "t", "_">>)
    \/ StartsWith(name, <<"l", "i", "s", "t", "_">>)
    \/ StartsWith(name, <<"f", "i", "n", "d", "_">>)
    \/ StartsWith(name, <<"r", "e", "s", "o", "l", "v", "e", "_">>)
ReadOnlyAsClaimed(name) ==
    \/ StartsWithReadPrefix(name)
    \/ name = <<"c", "a", "l", "l", "_", "c", "l", "i", "c", "k", "u", "p", "_", "a", "p", "i">>
    \/ name = <<"g", "e", "t", "_", "w", "o", "r", "k", "s", "p", "a", "c", "e", "_", "h", "i", "e", "r", "a", "r", "c", "h", "y">>
\* the same with call_clickup_api as a fifth prefix
ReadOnlyAsAmended(name) ==
    \/ StartsWithReadPrefix(name)
    \/ StartsWith(name, <<"c", "a", "l", "l", "_", "c", "l", "i", "c", "k", "u", "p", "_", "a", "p", "i">>)

C16_EnhanceIsIdempotent ==
    \A i \in 2..Len(enhanced) : enhanced[i] = enhanced[1]

\* a descriptor with no description, no annotations and an undescribed
\* property was enhanced twice, the first pass having filled all three in
C16_Witness ==
    /\ Len(enhanced) >= 2
    /\ descriptor.description = None
    /\ descriptor.annotations = None
    /\ descriptor.inputSchema # None
    /\ descriptor.inputSchema[1].properties # None
    /\ enhanced[1].description # None
    /\ enhanced[1].inputSchema # descriptor.inputSchema
    /\ enhanced[2] = enhanced[1]

\* C21: however the calls to prewarmClickUpCaches are sequenced or interleaved
\* with the warm-ups (calls while a prewarm is in flight and calls after a
\* prewarm whose service warm-ups failed included), the body that starts the
\* workspace and task warm-ups runs at most once, a warm-up that was started
\* is never started again, every caller is handed the completion of that one
\* run, and that completion never fails.
C21_PrewarmOnceSharedNeverFails ==
    /\ [](/\ prewarmStarts <= 1
          /\ \A c \in Callers :
                prewarmCallers[c] # NotHanded => prewarmCallers[c].run = 1
          /\ prewarmPromise # "rejected"
          /\ (wsPrewarm \in {"fulfilled", "rejected"}
                 /\ taskPrewarm \in {"completed", "failed"}) =>
                prewarmPromise = "fulfilled")
    /\ [][/\ (wsPrewarm # "notStarted") => (wsPrewarm' # "notStarted")
          /\ (wsPrewarm \in {"fulfilled", "rejected"}) => (wsPrewarm' = wsPrewarm)
          /\ (taskPrewarm \in {"completed", "failed"}) => (taskPrewarm' = taskPrewarm)
          /\ (prewarmPromise = "fulfilled") => (prewarmPromise' = "fulfilled")]_vars

\* one caller started the prewarm, one called while it was in flight and
\* one after both service warm-ups had failed
C21_Witness ==
    /\ \E c \in Callers : prewarmCallers[c].at = "null"
    /\ \E c \in Callers : prewarmCallers[c].at = "pending"
    /\ \E c \in Callers : prewarmCallers[c].at = "fulfilled"
    /\ wsPrewarm = "rejected"
    /\ taskPrewarm = "failed"
    /\ prewarmPromise = "fulfilled"
    /\ prewarmStarts = 1

\* the requests the claim says callApi refuses: the method missing or, read
\* without regard to case, none of the five; the path missing, not a string,
\* or starting with http:// or https:// (read without regard to case too)
MethodRefused(method) ==
    \/ method.type # "string"
    \/ toUpperCaseAll(method.chars) \notin SupportedHttpMethods
PathRefused(path) ==
    \/ path.type # "string"
    \/ path.chars = << >>
    \/ isAbsoluteUrl(path.chars)

\* C22: a callApi request whose method or path is refused fails with an
\* INVALID_PARAMETER error and issues no backend request; any other request
\* issues exactly one backend request, with the upper-cased method and a path
\* that begins with "/", and what is returned carries that method and path.
C22_CallApiValidatesThenRequestsOnce ==
    (api # NoApiCall) =>
        IF MethodRefused(api.options.method) \/ PathRefused(api.options.path)
        THEN /\ api.status = "rejected"
             /\ api.error # None
             /\ api.error[1].code = "INVALID_PARAMETER"
             /\ api.requests = << >>
        ELSE /\ Len(api.requests) = 1
             /\ api.requests[1].method = toUpperCaseAll(api.options.method.chars)
             /\ Head(api.requests[1].url) = "/"
             /\ (api.status = "fulfilled") =>
                   /\ api.returned[1].method = api.requests[1].method
                   /\ api.returned[1].path = api.requests[1].url

\* the title the enhancer hands to the schema enhancement
SchemaTitle ==
    IF Supplies("title") THEN descriptor.annotations[1]["title"]
    ELSE formatTitleFromName(descriptor.name)
\* a property name with every underscore replaced by a space
SpacedName(key) == [i \in 1..Len(key) |-> IF key[i] = "_" THEN " " ELSE key[i]]
\* the properties of a schema object, none when it has no properties field
PropertiesOf(object) ==
    IF object.properties = None THEN << >> ELSE object.properties[1]

\* C23: for every descriptor whose input schema is an object, each property
\* (itself an object) that lacks a description receives "Value for <its name
\* with every underscore replaced by a space>", each property that has a
\* description is passed through unchanged, and the schema's own description
\* is kept when present and set to "<title> parameters" when absent; a missing
\* or non-object schema is returned unchanged.
C23_SchemaDescriptionsFilledIn ==
    (enhanced # << >>) =>
        LET in == descriptor.inputSchema
            out == enhanced[1].inputSchema
        IN IF in = None \/ ~in[1].isObject
           THEN out = in
           ELSE /\ out # None
                /\ out[1].isObject
                /\ out[1].description =
                      IF in[1].description # None
                      THEN in[1].description
                      ELSE Some(SchemaTitle \o <<" ", "p", "a", "r", "a", "m", "e", "t", "e", "r", "s">>)
                /\ DOMAIN PropertiesOf(out[1]) = DOMAIN PropertiesOf(in[1])
                /\ \A key \in DOMAIN PropertiesOf(in[1]) :
                      LET before == PropertiesOf(in[1])[key]
                          after == PropertiesOf(out[1])[key]
                      IN IF before.isObject /\ before.description = None
                         THEN after = [before EXCEPT !.description =
                                          Some(<<"V", "a", "l", "u", "e", " ", "f", "o", "r", " ">> \o SpacedName(key))]
                         ELSE after = before

\* custom_item_id, which had no description, is described as "Value for
\* custom item id" next to a property that kept its own description
C23_Witness ==
    /\ enhanced # << >>
    /\ descriptor.inputSchema # None
    /\ descriptor.inputSchema[1].properties # None
    /\ LET properties == enhanced[1].inputSchema[1].properties[1]
       IN /\ properties[<<"c", "u", "s", "t", "o", "m", "_", "i", "t", "e", "m", "_", "i", "d">>].description =
                Some(<<"V", "a", "l", "u", "e", " ", "f", "o", "r", " ", "c", "u", "s", "t", "o", "m", " ", "i", "t", "e", "m", " ", "i", "d">>)
          /\ properties[<<"n", "a", "m", "e">>].description = Some(<<"N", "a", "m", "e">>)

====
